---------------------------- MODULE Spec2Model ----------------------------
(***************************************************************************)
(* A model of the vCard-to-Excel converter (scr/vcf_converter_gui.py).     *)
(*                                                                         *)
(* Python strings are sequences of one-character strings, so that strip(), *)
(* filter(), join() and sorted() are computed and not assumed.  The calls  *)
(* into the external libraries (chardet, phonenumbers, vobject, tkinter's  *)
(* dialogs, the file system) are inputs: each call's outcome is drawn from *)
(* the outcomes the library's interface allows.                            *)
(***************************************************************************)
EXTENDS Integers, Sequences, FiniteSets, TLC

VARIABLES
    \* --- VcfConverterApp and the run of convert() -----------------------
    input_filepath,      \* self.input_filepath: "None" or a path
    convert_btn,         \* self.convert_btn['state']
    status,              \* colour name of the last update_status call
    dialog,              \* the messagebox the current convert() has shown
    pc,                  \* position inside convert() / process_vcf_data()
    processed_contacts,  \* the list of (name, number) rows being built
    card_text,           \* the chunk the loop of line 108 is at
    name,                \* name of the record under extraction
    tel_list,            \* entries of vcard.tel_list not yet visited
    normalized_numbers,  \* the record's set of normalized numbers
    card_no,             \* how many chunks of the split the loop has taken
    row_card,            \* history: the chunk each row came from
    seen,                \* history: the normalize calls of the current chunk
    last_chunk,          \* history: how the loop left the last chunk
    asked_save,          \* the current convert() called asksaveasfilename
    excel_written,       \* the current convert() called create_excel_file
    \* --- read_vcf_content ------------------------------------------------
    raw_data,            \* the bytes read from the file
    detector,            \* what chardet.detect does on these bytes
    readable,            \* whether open()/read() succeed
    read_result,         \* what read_vcf_content returned or raised
    \* --- normalize_phone_number ------------------------------------------
    number_str,          \* the argument
    lib_out,             \* what phonenumbers does on the cleaned string
    norm_result,         \* what normalize_phone_number returned or raised
    \* --- get_contact_name ------------------------------------------------
    vcard,               \* the parsed card
    name_result          \* what get_contact_name returned

vars_app == <<input_filepath, convert_btn, status, dialog, pc,
              processed_contacts, card_text, name, tel_list,
              normalized_numbers,
              card_no, row_card, seen, last_chunk, asked_save,
              excel_written>>
vars_read == <<raw_data, detector, readable, read_result>>
vars_norm == <<number_str, lib_out, norm_result>>
vars_name == <<vcard, name_result>>
vars == <<vars_app, vars_read, vars_norm, vars_name>>

-----------------------------------------------------------------------------
(* Bounds of the model *)

MaxLen == 3        \* longest telephone string of the normalizer's inputs
MaxE164 == 2       \* most digits of a formatted number
MaxBytes == 3      \* longest file content of the reader's inputs
MaxCards == 2      \* most chunks of one document
MaxTels == 2       \* most telephone fields of one record

-----------------------------------------------------------------------------
(* Python str *)

RECURSIVE StringsUpTo(_, _)
StringsUpTo(alphabet, n) ==
    IF n = 0 THEN {<<>>}
    ELSE LET shorter == StringsUpTo(alphabet, n - 1)
         IN  shorter \cup {Append(s, c) : s \in {t \in shorter : Len(t) = n - 1},
                                          c \in alphabet}

Digits == {"0", "1", "2", "3", "4", "5", "6", "7", "8", "9"}

\* ord(c) of the characters the model uses
ord(c) ==
    CASE c = " " -> 32
      [] c = "+" -> 43
      [] c = "-" -> 45
      [] c = "0" -> 48
      [] c = "1" -> 49
      [] c = "2" -> 50
      [] c = "3" -> 51
      [] c = "4" -> 52
      [] c = "5" -> 53
      [] c = "6" -> 54
      [] c = "7" -> 55
      [] c = "8" -> 56
      [] c = "9" -> 57
      [] c = "A" -> 65
      [] c = "B" -> 66
      [] OTHER   -> 1575

isspace(c) == c = " "
isdigit(c) == c \in Digits

RECURSIVE lstrip(_)
lstrip(s) == IF s # <<>> /\ isspace(Head(s)) THEN lstrip(Tail(s)) ELSE s

RECURSIVE rstrip(_)
rstrip(s) ==
    IF s # <<>> /\ isspace(s[Len(s)]) THEN rstrip(SubSeq(s, 1, Len(s) - 1)) ELSE s

\* str.strip()
strip(s) == rstrip(lstrip(s))

\* s < t for two Python strings: code point order, a proper prefix first
RECURSIVE StrLess(_, _)
StrLess(s, t) ==
    IF t = <<>> THEN FALSE
    ELSE IF s = <<>> THEN TRUE
    ELSE IF Head(s) # Head(t) THEN ord(Head(s)) < ord(Head(t))
    ELSE StrLess(Tail(s), Tail(t))

\* sorted() left out, or sorted the other way: the numbers in descending
\* order, one of the orders a set may be iterated in.
RECURSIVE sorted_descending(_)
sorted_descending(S) ==
    IF S = {} THEN <<>>
    ELSE LET greatest == CHOOSE x \in S : \A y \in S \ {x} : StrLess(y, x)
         IN  <<greatest>> \o sorted_descending(S \ {greatest})

\* sorted(list(S)) for a set of strings
RECURSIVE sorted(_)
sorted(S) ==
    IF S = {} THEN <<>>
    ELSE LET least == CHOOSE x \in S : \A y \in S \ {x} : StrLess(x, y)
         IN  <<least>> \o sorted(S \ {least})

-----------------------------------------------------------------------------
(* normalize_phone_number *)

\* the lambda of the filter: char.isdigit() or char in '+'
keep_char(char) == isdigit(char) \/ char = "+"

\* "".join(filter(keep_char, number_str))
RECURSIVE cleaned_number(_)
cleaned_number(s) ==
    IF s = <<>> THEN <<>>
    ELSE IF keep_char(Head(s)) THEN <<Head(s)>> \o cleaned_number(Tail(s))
         ELSE cleaned_number(Tail(s))

\* What phonenumbers.parse / is_valid_number / format_number(E164) do on one
\* cleaned string: parse raises NumberParseException, or the parsed number is
\* not valid, or it is valid and formats as "+" and digits.
E164Numbers ==
    {<<"+">> \o d : d \in StringsUpTo({"1", "2"}, MaxE164) \ {<<>>}}

LibOutcomes ==
    {[kind |-> "NumberParseException", e164 |-> <<>>],
     [kind |-> "invalid", e164 |-> <<>>]}
    \cup {[kind |-> "valid", e164 |-> e] : e \in E164Numbers}

\* A string with no digit in it is no phone number: parse raises on it.
LibAllows(cleaned, lib) ==
    (\A i \in 1..Len(cleaned) : ~isdigit(cleaned[i]))
        => lib.kind = "NumberParseException"

Returned(v) == [raised |-> "no", value |-> v]
Raised(e) == [raised |-> e, value |-> <<>>]

\* Lines 81-84, the body of the try: the exception it raises, or the value
\* it returns, or neither (control reaches the line after the try).
try_normalize(s, lib) ==
    IF lib.kind = "NumberParseException" THEN Raised("NumberParseException")
    ELSE IF lib.kind = "valid" THEN Returned(lib.e164)
    ELSE [raised |-> "fallthrough", value |-> <<>>]

\* Line 87 returning cleaned_number where it returns number_str.strip().
normalize_returns_cleaned(s, lib) ==
    IF s = <<>> THEN Returned(<<>>)
    ELSE LET t == try_normalize(s, lib)
         IN  IF t.raised = "no" THEN t
             ELSE Returned(cleaned_number(s))

\* normalize_phone_number(number_str, region); lib is what the library does
\* on cleaned_number(number_str) with that region.
normalize_phone_number(s, lib) ==
    IF s = <<>> THEN Returned(<<>>)
    ELSE LET t == try_normalize(s, lib)
         IN  IF t.raised = "no" THEN t
             ELSE IF t.raised \in {"NumberParseException", "fallthrough"}
                  THEN Returned(strip(s))
             ELSE t

-----------------------------------------------------------------------------
(* get_contact_name *)

\* The literal of line 102, as one character the inputs never hold.
Placeholder == <<"unknown">>

\* " ".join(parts)
RECURSIVE join(_)
join(parts) ==
    IF parts = <<>> THEN <<>>
    ELSE IF Len(parts) = 1 THEN parts[1]
    ELSE parts[1] \o <<" ">> \o join(Tail(parts))

\* [part.strip() for part in parts if part and part.strip()]
RECURSIVE name_parts(_)
name_parts(parts) ==
    IF parts = <<>> THEN <<>>
    ELSE IF Head(parts) # <<>> /\ strip(Head(parts)) # <<>>
         THEN <<strip(Head(parts))>> \o name_parts(Tail(parts))
         ELSE name_parts(Tail(parts))

\* A parsed card: has_fn, has_n, has_org are hasattr(vcard, ...); fn is
\* vcard.fn.value; given, middle and family are attributes read from
\* vcard.n.value; org is vcard.org.value, a list of strings.  vcard.n.value
\* is an object of the vobject library, which names the fields of a
\* structured name family, given, additional, prefix and suffix: has_middle
\* tells whether the object has an attribute called middle at all, and
\* reading an attribute an object lacks raises AttributeError.
get_contact_name(vc) ==
    IF vc.has_fn /\ vc.fn # <<>> /\ strip(vc.fn) # <<>>
    THEN Returned(strip(vc.fn))
    ELSE IF vc.has_n /\ ~vc.has_middle
    THEN Raised("AttributeError")
    ELSE IF vc.has_n /\ name_parts(<<vc.given, vc.middle, vc.family>>) # <<>>
    THEN Returned(join(name_parts(<<vc.given, vc.middle, vc.family>>)))
    ELSE IF vc.has_org /\ vc.org # <<>> /\ vc.org[1] # <<>>
            /\ strip(vc.org[1]) # <<>>
    THEN Returned(strip(vc.org[1]))
    ELSE Returned(Placeholder)

-----------------------------------------------------------------------------
(* read_vcf_content *)

\* Bytes of the inputs: an ASCII letter, the lead byte of a two-byte UTF-8
\* sequence, a continuation byte, and a byte no UTF-8 text holds.  Text is
\* a sequence of code points.
Bytes == {65, 195, 169, 255}

ReplacementChar == 65533

\* bytes.decode('utf-8', errors) on one- and two-byte sequences: a byte that
\* starts no valid sequence is one error, dropped under 'ignore' and turned
\* into U+FFFD under 'replace'.
RECURSIVE utf_8(_, _)
utf_8(raw, errors) ==
    IF raw = <<>> THEN <<>>
    ELSE IF raw[1] < 128 THEN <<raw[1]>> \o utf_8(Tail(raw), errors)
    ELSE IF raw[1] \in 194..223 /\ Len(raw) >= 2 /\ raw[2] \in 128..191
         THEN <<(raw[1] - 192) * 64 + (raw[2] - 128)>>
              \o utf_8(Tail(Tail(raw)), errors)
    ELSE IF errors = "ignore" THEN utf_8(Tail(raw), errors)
    ELSE <<ReplacementChar>> \o utf_8(Tail(raw), errors)

\* The decoding tables of the single-byte codecs on Bytes; 0 is a byte the
\* codec leaves undefined.
charmap(codec, b) ==
    IF b < 128 THEN b
    ELSE CASE codec = "ascii"      -> 0
           [] codec = "latin-1"    -> b
           [] codec = "cp1252"     -> b
           [] codec = "cp1256"     ->
                 (CASE b = 195 -> 1571 [] b = 255 -> 1746 [] OTHER -> b)
           [] codec = "iso-8859-6" ->
                 (CASE b = 195 -> 1571 [] OTHER -> 0)

RECURSIVE charmap_decode(_, _, _)
charmap_decode(raw, codec, errors) ==
    IF raw = <<>> THEN <<>>
    ELSE LET c == charmap(codec, raw[1])
         IN  (IF c # 0 THEN <<c>>
              ELSE IF errors = "ignore" THEN <<>> ELSE <<ReplacementChar>>)
             \o charmap_decode(Tail(raw), codec, errors)

\* The codec Python's registry finds for an encoding name.
lookup(encoding) ==
    CASE encoding \in {"utf-8", "utf-8-sig"}             -> encoding
      [] encoding = "ascii"                               -> "ascii"
      [] encoding \in {"latin-1", "iso-8859-1"}           -> "latin-1"
      [] encoding \in {"cp1252", "windows-1252"}          -> "cp1252"
      [] encoding \in {"cp1256", "windows-1256"}          -> "cp1256"
      [] encoding = "iso-8859-6"                          -> "iso-8859-6"
      [] OTHER                                            -> "unknown"

\* decode without errors='ignore': a byte the codec cannot decode raises
\* UnicodeDecodeError, a UnicodeError.
decode_strict(raw, encoding, errors) ==
    LET codec == lookup(encoding)
        text == IF codec \in {"utf-8", "utf-8-sig"}
                THEN utf_8(raw, "replace")
                ELSE charmap_decode(raw, codec, "replace")
    IN  IF codec = "unknown" THEN Raised("LookupError")
        ELSE IF \E i \in 1..Len(text) : text[i] = ReplacementChar
             THEN Raised("UnicodeError")
        ELSE Returned(text)

\* raw_data.decode(encoding, errors=errors).  With 'ignore' or 'replace' a
\* known codec returns; an unknown name raises LookupError.  No input holds
\* a byte order mark, so utf-8-sig decodes as utf-8.
decode(raw, encoding, errors) ==
    LET codec == lookup(encoding)
    IN  IF codec = "unknown" THEN Raised("LookupError")
        ELSE IF codec \in {"utf-8", "utf-8-sig"}
             THEN Returned(utf_8(raw, errors))
        ELSE Returned(charmap_decode(raw, codec, errors))

\* str.lower() of the names chardet reports
lower(s) ==
    CASE s = "UTF-8"        -> "utf-8"
      [] s = "Windows-1252" -> "windows-1252"
      [] s = "Windows-1256" -> "windows-1256"
      [] s = "ISO-8859-1"   -> "iso-8859-1"
      [] s = "EUC-TW"       -> "euc-tw"
      [] OTHER              -> s

\* What chardet.detect(raw_data)['encoding'] does: it raises, or yields None,
\* or yields a name, which may be one Python has no codec for (EUC-TW).
DetectorOutcomes ==
    {[kind |-> "raises", encoding |-> "None"],
     [kind |-> "ok", encoding |-> "None"]}
    \cup {[kind |-> "ok", encoding |-> e] :
            e \in {"UTF-8", "ascii", "Windows-1252", "Windows-1256",
                   "ISO-8859-1", "EUC-TW"}}

InList(x, list) == \E i \in 1..Len(list) : list[i] = x

\* The candidate list with the detected encoding tried first.
detected_first(det) ==
    (IF det.kind = "ok" /\ det.encoding # "None"
     THEN <<lower(det.encoding)>> ELSE <<>>)
    \o <<"utf-8", "cp1256", "utf-8-sig", "latin-1", "iso-8859-6", "cp1252">>

\* Lines 56-65: the candidate list.
encodings_to_try(det) ==
    LET first == <<"utf-8", "cp1256">>
        detected == det.encoding
        with_detected ==
            IF det.kind = "ok" /\ detected # "None"
               /\ ~InList(lower(detected), first)
            THEN Append(first, lower(detected))
            ELSE first
    IN  with_detected \o <<"utf-8-sig", "latin-1", "iso-8859-6", "cp1252">>

\* Lines 67-73: the loop over the candidates and the decode after it.  The
\* result also tells how many candidates were tried and whether the decode
\* of line 73 produced it.
RECURSIVE try_encodings(_, _, _)
try_encodings(raw, encodings, tried) ==
    IF encodings = <<>>
    THEN decode(raw, "utf-8", "replace")
            @@ [tried |-> tried, last_resort |-> TRUE]
    ELSE LET r == decode(raw, Head(encodings), "ignore")
         IN  IF r.raised \in {"UnicodeError", "TypeError"}
             THEN try_encodings(raw, Tail(encodings), tried + 1)
             ELSE r @@ [tried |-> tried + 1, last_resort |-> FALSE]

\* read_vcf_content(file_path): can_read is whether open() and read()
\* succeed, raw what read() returns, det what chardet does on it.
read_vcf_content(can_read, raw, det) ==
    IF ~can_read
    THEN Raised("ValueError") @@ [tried |-> 0, last_resort |-> FALSE]
    ELSE try_encodings(raw, encodings_to_try(det), 0)

-----------------------------------------------------------------------------
(* Inputs *)

NotCalled == [raised |-> "pending", value |-> <<>>]

TelStrings == StringsUpTo({" ", "+", "-", "1", "2"}, MaxLen)

\* Values of the name fields: each field has its own letter, and holds the
\* empty string, a blank string, the letter, or the letter in whitespace.
FnStrings == {<<>>, <<" ">>, <<"F">>, <<" ", "F", " ">>}
GivenStrings == {<<>>, <<" ">>, <<"G">>, <<" ", "G">>}
MiddleStrings == {<<>>, <<" ">>, <<"M">>}
FamilyStrings == {<<>>, <<"S">>, <<"S", " ">>}
OrgStrings == {<<>>, <<" ">>, <<"O">>, <<" ", "O", " ">>}

NoCard ==
    [has_fn |-> FALSE, fn |-> <<>>, has_n |-> FALSE, has_middle |-> FALSE,
     given |-> <<>>, middle |-> <<>>, family |-> <<>>,
     has_org |-> FALSE, org |-> <<>>]

\* Parsed cards: every field is absent or present with one of its values;
\* the organization is a list of no value, one value or two.
VCards ==
    {[NoCard EXCEPT !.has_fn = f.has, !.fn = f.v,
                    !.has_n = n.has, !.has_middle = n.mid,
                    !.given = n.g, !.middle = n.m, !.family = n.f,
                    !.has_org = o.has, !.org = o.v] :
        f \in {[has |-> FALSE, v |-> <<>>]}
              \cup {[has |-> TRUE, v |-> x] : x \in FnStrings},
        n \in {[has |-> FALSE, mid |-> FALSE, g |-> <<>>, m |-> <<>>, f |-> <<>>]}
              \cup {[has |-> TRUE, mid |-> FALSE, g |-> x, m |-> <<>>, f |-> z] :
                       x \in GivenStrings, z \in FamilyStrings}
              \cup {[has |-> TRUE, mid |-> TRUE, g |-> x, m |-> y, f |-> z] :
                       x \in GivenStrings, y \in MiddleStrings,
                       z \in FamilyStrings},
        o \in {[has |-> FALSE, v |-> <<>>], [has |-> TRUE, v |-> <<>>]}
              \cup {[has |-> TRUE, v |-> <<x>>] : x \in OrgStrings}
              \cup {[has |-> TRUE, v |-> <<x, <<"D">>>>] : x \in OrgStrings}}

RawInputs == StringsUpTo(Bytes, MaxBytes)

-----------------------------------------------------------------------------
(* The three functions on their own *)

ParkedApp ==
    /\ input_filepath = "None"
    /\ convert_btn = "disabled"
    /\ status = "ready"
    /\ dialog = "none"
    /\ pc = "idle"
    /\ processed_contacts = <<>>
    /\ card_text = [kind |-> "none", vc |-> NoCard, tels |-> <<>>]
    /\ name = <<>>
    /\ tel_list = <<>>
    /\ normalized_numbers = {}
    /\ card_no = 0
    /\ row_card = <<>>
    /\ seen = <<>>
    /\ last_chunk = "none"
    /\ asked_save = FALSE
    /\ excel_written = FALSE

ParkedRead ==
    /\ raw_data = <<>>
    /\ detector = [kind |-> "ok", encoding |-> "None"]
    /\ readable = TRUE
    /\ read_result = NotCalled

ParkedNorm ==
    /\ number_str = <<>>
    /\ lib_out = [kind |-> "NumberParseException", e164 |-> <<>>]
    /\ norm_result = NotCalled

ParkedName ==
    /\ vcard = NoCard
    /\ name_result = NotCalled

InitNorm ==
    /\ number_str \in TelStrings
    /\ lib_out \in {l \in LibOutcomes : LibAllows(cleaned_number(number_str), l)}
    /\ norm_result = NotCalled
    /\ ParkedApp /\ ParkedRead /\ ParkedName

Normalize ==
    /\ norm_result = NotCalled
    /\ norm_result' = normalize_phone_number(number_str, lib_out)
    /\ UNCHANGED <<number_str, lib_out, vars_app, vars_read, vars_name>>

SpecNorm == InitNorm /\ [][Normalize]_vars

InitName ==
    /\ vcard \in VCards
    /\ name_result = NotCalled
    /\ ParkedApp /\ ParkedRead /\ ParkedNorm

GetName ==
    /\ name_result = NotCalled
    /\ name_result' = get_contact_name(vcard)
    /\ UNCHANGED <<vcard, vars_app, vars_read, vars_norm>>

SpecName == InitName /\ [][GetName]_vars

InitRead ==
    /\ raw_data \in RawInputs
    /\ detector \in DetectorOutcomes
    /\ readable \in BOOLEAN
    /\ read_result = NotCalled
    /\ ParkedApp /\ ParkedNorm /\ ParkedName

ReadFile ==
    /\ read_result = NotCalled
    /\ read_result' = read_vcf_content(readable, raw_data, detector)
    /\ UNCHANGED <<raw_data, detector, readable, vars_app, vars_norm, vars_name>>

SpecRead == InitRead /\ [][ReadFile]_vars

-----------------------------------------------------------------------------
(* VcfConverterApp: select_file, and convert() step by step *)

Paths == {"a.vcf", "b.vcf"}

\* What the library does on the telephone values of a document here.
ProcLibOutcomes ==
    {[kind |-> "NumberParseException", e164 |-> <<>>],
     [kind |-> "invalid", e164 |-> <<>>],
     [kind |-> "valid", e164 |-> <<"+", "2">>]}

\* tel.value of the telephone fields of a document here: empty, blank, two
\* values that differ only by surrounding whitespace, and one without a
\* digit.
TelSamples == {<<>>, <<" ">>, <<"1">>, <<" ", "1">>, <<"-">>}

\* The cards of a document here: one with a formatted name, one with a
\* structured name only whose object has the attribute middle, one with a
\* structured name only whose object lacks it.
ProcCards ==
    {[NoCard EXCEPT !.has_fn = TRUE, !.fn = <<"A">>],
     [NoCard EXCEPT !.has_n = TRUE, !.has_middle = TRUE, !.given = <<"B">>],
     [NoCard EXCEPT !.has_n = TRUE, !.has_middle = FALSE, !.given = <<"B">>]}

TelLists == UNION {[1..n -> TelSamples] : n \in 0..MaxTels}

\* One chunk of vcf_content.split('BEGIN:VCARD'): text without the end
\* marker, or text with it that vobject.readOne rejects, or text with it
\* that readOne turns into a card with its telephone fields (no tel_list
\* attribute when there is none).
Chunks ==
    {[kind |-> "no_end", vc |-> NoCard, tels |-> <<>>],
     [kind |-> "parse_error", vc |-> NoCard, tels |-> <<>>]}
    \cup {[kind |-> "card", vc |-> c, tels |-> t] : c \in ProcCards, t \in TelLists}

NoChunk == [kind |-> "none", vc |-> NoCard, tels |-> <<>>]

Init ==
    /\ input_filepath = "None"
    /\ convert_btn = "disabled"
    /\ status = "ready"
    /\ dialog = "none"
    /\ pc = "idle"
    /\ processed_contacts = <<>>
    /\ card_text = NoChunk
    /\ name = <<>>
    /\ tel_list = <<>>
    /\ normalized_numbers = {}
    /\ card_no = 0
    /\ row_card = <<>>
    /\ seen = <<>>
    /\ last_chunk = "none"
    /\ asked_save = FALSE
    /\ excel_written = FALSE
    /\ ParkedRead /\ ParkedNorm /\ ParkedName

vars_proc == <<processed_contacts, card_text, name, tel_list,
               normalized_numbers, card_no, row_card, seen, last_chunk>>
vars_parked == <<vars_read, vars_norm, vars_name>>

\* convert() returns: its locals, and those of process_vcf_data, are gone.
release_locals ==
    /\ processed_contacts' = <<>>
    /\ card_text' = NoChunk
    /\ name' = <<>>
    /\ tel_list' = <<>>
    /\ normalized_numbers' = {}
    /\ card_no' = 0
    /\ row_card' = <<>>
    /\ seen' = <<>>
    /\ last_chunk' = "none"

\* Lines 243-253.  filedialog.askopenfilename returns "" when cancelled.
select_file ==
    /\ pc = "idle"
    /\ \E filepath \in Paths \cup {""} :
          IF filepath # ""
          THEN /\ input_filepath' = filepath
               /\ convert_btn' = "normal"
               /\ status' = "black"
          ELSE UNCHANGED <<input_filepath, convert_btn, status>>
    /\ UNCHANGED <<dialog, pc, asked_save, excel_written, vars_proc, vars_parked>>

\* Lines 255-263.  The button runs convert only while it is enabled.
convert ==
    /\ pc = "idle"
    /\ convert_btn = "normal"
    /\ asked_save' = FALSE
    /\ excel_written' = FALSE
    /\ IF input_filepath = "None"
       THEN /\ dialog' = "showerror"
            /\ UNCHANGED <<status, pc>>
       ELSE /\ dialog' = "none"
            /\ status' = "blue"
            /\ pc' = "read"
    /\ UNCHANGED <<input_filepath, convert_btn, vars_proc, vars_parked>>

\* Lines 290-292, the handler of convert's try.
convert_except ==
    /\ status' = "red"
    /\ dialog' = "showerror"
    /\ pc' = "idle"

\* Line 266, and the entry of process_vcf_data (line 106) when it returns.
convert_read ==
    /\ pc = "read"
    /\ \E can_read \in BOOLEAN, raw \in RawInputs, det \in DetectorOutcomes :
          IF read_vcf_content(can_read, raw, det).raised # "no"
          THEN /\ convert_except
               /\ UNCHANGED vars_proc
          ELSE /\ pc' = "split"
               /\ processed_contacts' = <<>>
               /\ card_text' = NoChunk
               /\ name' = <<>>
               /\ tel_list' = <<>>
               /\ normalized_numbers' = {}
               /\ card_no' = 0
               /\ row_card' = <<>>
               /\ seen' = <<>>
               /\ last_chunk' = "none"
               /\ UNCHANGED <<status, dialog>>
    /\ UNCHANGED <<input_filepath, convert_btn, asked_save, excel_written,
                   vars_parked>>

\* Line 108: the loop takes the next chunk of the split.
take_chunk ==
    /\ pc = "split"
    /\ card_no < MaxCards
    /\ \E c \in Chunks : card_text' = c
    /\ card_no' = card_no + 1
    /\ pc' = "card"
    /\ UNCHANGED <<input_filepath, convert_btn, status, dialog, asked_save,
                   excel_written, processed_contacts, name, tel_list,
                   normalized_numbers, row_card, seen, last_chunk,
                   vars_parked>>

\* Whether lines 109-113 leave the chunk: no end marker (line 109), or
\* readOne or get_contact_name raise and line 127 catches it.
Skipped(c) ==
    \/ c.kind = "no_end"
    \/ c.kind = "parse_error"
    \/ get_contact_name(c.vc).raised # "no"

\* The loop goes on to the next chunk: nothing of this one is read again.
next_iteration ==
    /\ pc' = "split"
    /\ card_text' = NoChunk
    /\ name' = <<>>
    /\ tel_list' = <<>>
    /\ normalized_numbers' = {}
    /\ seen' = <<>>

\* Line 127 not catching: the exception of a record reaches line 130 and,
\* as ValueError, the handler of convert.
skip_chunk_aborts ==
    /\ pc = "card"
    /\ Skipped(card_text)
    /\ IF card_text.kind = "no_end"
       THEN /\ next_iteration
            /\ last_chunk' = "no_end"
            /\ UNCHANGED <<status, dialog, processed_contacts, card_no,
                           row_card>>
       ELSE /\ convert_except
            /\ release_locals
    /\ UNCHANGED <<input_filepath, convert_btn, asked_save, excel_written,
                   vars_parked>>

\* Lines 109-113 and 127-128 on a chunk that is left.
skip_chunk ==
    /\ pc = "card"
    /\ Skipped(card_text)
    /\ next_iteration
    /\ last_chunk' = (IF card_text.kind = "card" THEN "name_error"
                      ELSE card_text.kind)
    /\ UNCHANGED <<input_filepath, convert_btn, status, dialog, asked_save,
                   excel_written, processed_contacts, card_no, row_card,
                   vars_parked>>

\* Lines 109-115 on a chunk that yields a card.
read_card ==
    /\ pc = "card"
    /\ ~Skipped(card_text)
    /\ name' = get_contact_name(card_text.vc).value
    /\ normalized_numbers' = {}
    /\ tel_list' = card_text.tels
    /\ pc' = "tels"
    /\ UNCHANGED <<input_filepath, convert_btn, status, dialog, asked_save,
                   excel_written, processed_contacts, card_text, card_no,
                   row_card, seen, last_chunk, vars_parked>>

\* normalized_numbers.add(normalized) under the test of line 119
add_number(numbers, normalized) ==
    IF normalized # <<>> THEN numbers \cup {normalized} ELSE numbers

\* Lines 116-120 for one entry of tel_list.  Were normalize_phone_number to
\* raise, line 127 would catch it and the loop would leave the chunk.
visit_tel ==
    /\ pc = "tels"
    /\ tel_list # <<>>
    /\ LET value == Head(tel_list)
       IN  IF value # <<>> /\ strip(value) # <<>>
           THEN \E lib \in {l \in ProcLibOutcomes :
                               LibAllows(cleaned_number(value), l)} :
                   LET r == normalize_phone_number(value, lib)
                   IN  IF r.raised # "no"
                       THEN /\ next_iteration
                            /\ last_chunk' = "normalize_error"
                       ELSE /\ normalized_numbers' =
                                   add_number(normalized_numbers, r.value)
                            /\ seen' = Append(seen, [value |-> value,
                                                     kind |-> lib.kind,
                                                     normalized |-> r.value])
                            /\ tel_list' = Tail(tel_list)
                            /\ UNCHANGED <<pc, card_text, name, last_chunk>>
           ELSE /\ tel_list' = Tail(tel_list)
                /\ UNCHANGED <<normalized_numbers, seen, pc, card_text, name,
                               last_chunk>>
    /\ UNCHANGED <<input_filepath, convert_btn, status, dialog, asked_save,
                   excel_written, processed_contacts, card_no, row_card,
                   vars_parked>>

\* [(name, number) for number in numbers], in the order of numbers
rows_of(nm, numbers) == [i \in 1..Len(numbers) |-> <<nm, numbers[i]>>]

\* Line 122 left out, a contact without a number keeping a row of its own.
record_rows_keeps_contact(nm, numbers) ==
    IF numbers = {} THEN <<<<nm, <<>>>>>> ELSE rows_of(nm, sorted(numbers))

\* Lines 122-126: the rows of one record: none for an empty set, else one
\* per number of the sorted set.
record_rows(nm, numbers) ==
    IF numbers = {} THEN <<>> ELSE rows_of(nm, sorted(numbers))

\* Lines 122-126, at the end of tel_list.
emit_rows ==
    /\ pc = "tels"
    /\ tel_list = <<>>
    /\ LET rows == record_rows(name, normalized_numbers)
       IN  /\ processed_contacts' = processed_contacts \o rows
           /\ row_card' = row_card \o [i \in 1..Len(rows) |-> card_no]
           /\ last_chunk' = (IF rows = <<>> THEN "no_numbers" ELSE "rows")
    /\ next_iteration
    /\ UNCHANGED <<input_filepath, convert_btn, status, dialog, asked_save,
                   excel_written, card_no, vars_parked>>

\* Line 133 and the assignment of line 267: the split has no chunk left.
\* str.split yields at least one chunk.
return_contacts ==
    /\ pc = "split"
    /\ card_no >= 1
    /\ pc' = "processed"
    /\ UNCHANGED <<input_filepath, convert_btn, status, dialog, asked_save,
                   excel_written, vars_proc, vars_parked>>

\* Lines 269-272 without the return of line 272: convert goes on to ask
\* for the save path and to write the file.
nothing_found_no_return ==
    /\ pc = "processed"
    /\ processed_contacts = <<>>
    /\ dialog' = "showwarning"
    /\ asked_save' = TRUE
    /\ \E output_path \in {"", "out.xlsx"} :
          IF output_path = ""
          THEN status' = "gray" /\ UNCHANGED excel_written
          ELSE status' = "green" /\ excel_written' = TRUE
    /\ pc' = "idle"
    /\ release_locals
    /\ UNCHANGED <<input_filepath, convert_btn, vars_parked>>

\* Lines 269-272.
nothing_found ==
    /\ pc = "processed"
    /\ processed_contacts = <<>>
    /\ status' = "orange"
    /\ dialog' = "showwarning"
    /\ pc' = "idle"
    /\ release_locals
    /\ UNCHANGED <<input_filepath, convert_btn, asked_save, excel_written,
                   vars_parked>>

\* Lines 274-292.  asksaveasfilename returns "" when cancelled;
\* create_excel_file raises when the workbook cannot be saved.
save_file ==
    /\ pc = "processed"
    /\ processed_contacts # <<>>
    /\ asked_save' = TRUE
    /\ \E output_path \in {"", "out.xlsx"}, saved \in BOOLEAN :
          IF output_path = ""
          THEN /\ status' = "gray"
               /\ pc' = "idle"
               /\ UNCHANGED <<dialog, excel_written>>
          ELSE /\ excel_written' = TRUE
               /\ IF saved
                  THEN /\ status' = "green"
                       /\ dialog' = "showinfo"
                       /\ pc' = "idle"
                  ELSE convert_except
    /\ release_locals
    /\ UNCHANGED <<input_filepath, convert_btn, vars_parked>>

Next ==
    \/ select_file
    \/ convert
    \/ convert_read
    \/ take_chunk
    \/ skip_chunk
    \/ read_card
    \/ visit_tel
    \/ emit_rows
    \/ return_contacts
    \/ nothing_found
    \/ save_file

Spec == Init /\ [][Next]_vars

-----------------------------------------------------------------------------
(* Properties *)

Blank(s) == \A i \in 1..Len(s) : isspace(s[i])

HasNoDigit(s) == \A i \in 1..Len(s) : ~isdigit(s[i])

\* v is s without its leading and trailing whitespace
IsTrimOf(v, s) ==
    \E i \in 0..Len(s) :
        /\ i + Len(v) <= Len(s)
        /\ SubSeq(s, i + 1, i + Len(v)) = v
        /\ \A k \in 1..i : isspace(s[k])
        /\ \A k \in (i + Len(v) + 1)..Len(s) : isspace(s[k])
        /\ v # <<>> => ~isspace(v[1]) /\ ~isspace(v[Len(v)])

NewRows ==
    SubSeq(processed_contacts', Len(processed_contacts) + 1,
           Len(processed_contacts'))

KeepsRows ==
    /\ Len(processed_contacts') >= Len(processed_contacts)
    /\ SubSeq(processed_contacts', 1, Len(processed_contacts))
          = processed_contacts

\* the step on which the loop is done with a chunk that readOne parsed
LeavesParsedRecord ==
    /\ pc \in {"card", "tels"}
    /\ pc' \notin {"card", "tels"}
    /\ card_text.kind = "card"

UsableTels(tels) == {i \in 1..Len(tels) : ~Blank(tels[i])}

\* C2: a record that parses keeps every telephone value that cannot be
\* normalized: when the loop is done with the record, each such value has a
\* row (name, value without surrounding whitespace), every other number of
\* the record has its row, and the rows of earlier records are still there.
C2_FailedNumberKept ==
    [][LeavesParsedRecord =>
          /\ pc' = "split"
          /\ KeepsRows
          /\ \A i \in UsableTels(card_text.tels) :
                HasNoDigit(card_text.tels[i]) =>
                   \E k \in 1..Len(NewRows) :
                      IsTrimOf(NewRows[k][2], card_text.tels[i])
          /\ \A i \in 1..Len(seen) :
                /\ \E k \in 1..Len(NewRows) :
                      NewRows[k] = <<name, seen[i].normalized>>
                /\ seen[i].kind # "valid"
                      => IsTrimOf(seen[i].normalized, seen[i].value)]_vars

\* C3: a record that parses and whose N non-empty telephone values
\* normalize to M distinct strings adds exactly M rows, one per distinct
\* string, no (name, number) pair twice.
C3_OneRowPerDistinctNumber ==
    [][LeavesParsedRecord =>
          LET distinct == {seen[i].normalized : i \in 1..Len(seen)}
          IN  /\ Len(seen) = Cardinality(UsableTels(card_text.tels))
              /\ Len(NewRows) = Cardinality(distinct)
              /\ {NewRows[k][2] : k \in 1..Len(NewRows)} = distinct
              /\ \A k, l \in 1..Len(NewRows) :
                    NewRows[k] = NewRows[l] => k = l]_vars

\* C4: rows are ordered by the chunk they come from, and the rows of one
\* chunk by ascending number: the rows of a chunk are contiguous and follow
\* those of every earlier chunk.
C4_RowOrder ==
    /\ Len(row_card) = Len(processed_contacts)
    /\ \A i, j \in 1..Len(processed_contacts) :
          i < j =>
             /\ row_card[i] <= row_card[j]
             /\ row_card[i] = row_card[j]
                   => StrLess(processed_contacts[i][2], processed_contacts[j][2])

C4_Witness ==
    /\ pc = "processed"
    /\ row_card = <<1, 1, 2, 2>>
    /\ processed_contacts[1][2] # processed_contacts[3][2]

\* a chunk without the end marker, or whose extraction raises
FailingChunk(c) ==
    \/ c.kind \in {"no_end", "parse_error"}
    \/ c.kind = "card" /\ get_contact_name(c.vc).raised # "no"

\* C5: a failing chunk adds no row and aborts nothing: its step leaves the
\* rows as they are, reports no error, and the loop goes on to the next
\* chunk, as if the chunk were not in the document.
C5_FailingChunkIsolated ==
    [][(pc = "card" /\ FailingChunk(card_text)) =>
          /\ processed_contacts' = processed_contacts
          /\ row_card' = row_card
          /\ pc' = "split"
          /\ status' = status
          /\ dialog' = dialog]_vars

C5_Witness ==
    /\ pc = "processed"
    /\ last_chunk \in {"no_end", "parse_error"}
    /\ card_no = 2
    /\ row_card = <<1>>
    /\ status = "blue"

\* C6: a record with no telephone field, or with blank telephone values
\* only, adds no row and reports no error whatever its names, and the loop
\* goes on; no row ever has an empty number.
C6_NoNumbersNoRows ==
    [][/\ (pc \in {"card", "tels"} /\ card_text.kind = "card"
             /\ UsableTels(card_text.tels) = {})
          => /\ processed_contacts' = processed_contacts
             /\ pc' \in {"tels", "split"}
             /\ status' = status
             /\ dialog' = dialog
       /\ \A k \in 1..Len(processed_contacts') :
             processed_contacts'[k][2] # <<>>]_vars

C6_Witness ==
    /\ pc = "tels"
    /\ last_chunk = "no_numbers"
    /\ card_no = 2
    /\ processed_contacts = <<>>
    /\ tel_list # <<>>

Glue(a, b) ==
    IF a = <<>> THEN b ELSE IF b = <<>> THEN a ELSE a \o <<" ">> \o b

\* the candidates of the name, in the order of their priority; an absent
\* field gives an empty candidate
NameCandidates(vc) ==
    <<IF vc.has_fn THEN strip(vc.fn) ELSE <<>>,
      IF vc.has_n
          THEN Glue(Glue(strip(vc.given), strip(vc.middle)), strip(vc.family))
          ELSE <<>>,
      IF vc.has_org /\ vc.org # <<>> THEN strip(vc.org[1]) ELSE <<>>,
      Placeholder>>

FirstNonEmpty(candidates) ==
    candidates[CHOOSE i \in 1..Len(candidates) :
                  /\ candidates[i] # <<>>
                  /\ \A j \in 1..(i - 1) : candidates[j] = <<>>]

\* C7: get_contact_name returns the first non-empty candidate among the
\* formatted name, the joined parts of the structured name, the first
\* organization value and the placeholder, and never the empty string.
C7_NameFallback ==
    name_result # NotCalled =>
        /\ name_result.raised = "no"
        /\ name_result.value # <<>>
        /\ name_result.value = FirstNonEmpty(NameCandidates(vcard))

\* C7 with the attribute there: the fallback as the claim has it.
C7_WhenMiddleIsThere ==
    (name_result # NotCalled /\ (vcard.has_n => vcard.has_middle)) =>
        /\ name_result.raised = "no"
        /\ name_result.value = FirstNonEmpty(NameCandidates(vcard))

\* C8: once the bytes are read decoding cannot fail: read_vcf_content
\* returns text whatever the bytes and whatever the detector does, and
\* raises only when the file cannot be read.
C8_DecodeTotal ==
    read_result # NotCalled =>
        IF readable THEN read_result.raised = "no"
        ELSE read_result.raised = "ValueError"

C8_Witness ==
    /\ readable
    /\ read_result.raised = "no"
    /\ detector.encoding = "EUC-TW"
    /\ InList(255, raw_data)

\* C10: the first candidate, UTF-8 with undecodable bytes dropped, always
\* decodes: the text is that decode whatever the detector reports, and no
\* later candidate nor the decode of line 73 is reached.
C10_FirstCandidateWins ==
    (read_result # NotCalled /\ readable) =>
        /\ read_result.raised = "no"
        /\ read_result.value = utf_8(raw_data, "ignore")
        /\ read_result.tried = 1
        /\ ~read_result.last_resort

C10_Witness ==
    /\ readable
    /\ read_result.raised = "no"
    /\ detector.encoding = "Windows-1256"
    /\ read_result.value # charmap_decode(raw_data, "cp1256", "ignore")
    /\ read_result.value # utf_8(raw_data, "replace")
    /\ read_result.value # <<>>

\* C9: when processing yields no row, convert ends with the warning and not
\* with the error: it asks for no save path, writes no file, leaves the
\* selected path alone, and the button can start another attempt.
C9_NothingFound ==
    [][(pc = "processed" /\ processed_contacts = <<>>) =>
          /\ status' = "orange"
          /\ dialog' = "showwarning"
          /\ ~asked_save'
          /\ ~excel_written'
          /\ input_filepath' = input_filepath
          /\ input_filepath' # "None"
          /\ pc' = "idle"
          /\ convert_btn' = "normal"]_vars

C9_Witness ==
    /\ pc = "idle"
    /\ status = "orange"
    /\ dialog = "showwarning"
    /\ ~asked_save
    /\ ~excel_written
    /\ input_filepath = "b.vcf"

=============================================================================
